---- MODULE Spec2Model ----
(***************************************************************************)
(* State-machine model of statsmodels/tsa/ardl.py: lag-order validation,   *)
(* design-matrix assembly (ARDL.__init__ / _initialize_model), prediction  *)
(* (ARDL._forecasting_x / ARDL.predict) and lag-order selection            *)
(* (ardl_select_order).                                                    *)
(*                                                                         *)
(* Conventions.  Time indices and array positions are 0-based as in the    *)
(* source; TLA+ sequences are 1-based, so element t of an array a is       *)
(* a[t + 1].  A 2-d array is a sequence of rows; the exogenous and fixed   *)
(* data are kept as sequences of columns.  Floating point values are       *)
(* integers plus the distinguished value NaN, which every arithmetic       *)
(* operation propagates.  Python's None is the tag "none" of a tagged      *)
(* value, or `given = FALSE` of an optional array.                         *)
(***************************************************************************)
EXTENDS Integers, Sequences, FiniteSets, TLC

\* ------------------------------------------------------------------ bounds
NObs == 6          \* number of observations of the response
MaxOos == 3        \* largest number of out-of-sample steps requested
MaxDynamic == 2    \* largest integer `dynamic` offset requested
MaxCalls == 2      \* predict calls made on one fitted model
SelNObs == 12      \* number of observations in order selection
MaxSelLag == 2     \* largest maxlag tried in order selection
MaxSelOrder == 1   \* largest maxorder tried in order selection
MaxSelVars == 2    \* most exogenous variables in order selection
MaxSelCols == 6    \* most candidate columns in order selection
MaxListLen == 3    \* longest explicit lag list handed to _check_order
MaxListVal == 2    \* largest entry of such a list (smallest is -1)
MaxCheckVars == 2  \* most exogenous variables in order validation
BuildNObs == 8     \* number of observations in the construction checks
MaxBuildVars == 2  \* most exogenous variables in the construction checks
MaxMapKeys == 2    \* most keys of a mapping order

\* --------------------------------------------------------- numeric values
NaN == -1000000    \* np.nan
Inf == 1000000     \* np.inf
PadVal == 0        \* lagmat fills entries before the first observation

IsNaN(a) == a = NaN
Add(a, b) == IF IsNaN(a) \/ IsNaN(b) THEN NaN ELSE a + b
Mul(a, b) == IF IsNaN(a) \/ IsNaN(b) THEN NaN ELSE a * b
\* Python comparison a < b on floats: False when either side is NaN
Lt(a, b) == ~IsNaN(a) /\ ~IsNaN(b) /\ a < b

MinI(a, b) == IF a < b THEN a ELSE b
MaxI(a, b) == IF a > b THEN a ELSE b
B2I(b) == IF b THEN 1 ELSE 0

Range(s) == {s[i] : i \in 1..Len(s)}
SeqMin(s) == CHOOSE m \in Range(s) : \A v \in Range(s) : m <= v
SeqMax(s) == CHOOSE m \in Range(s) : \A v \in Range(s) : m >= v
PyRange(a, b) == [i \in 1..MaxI(b - a, 0) |-> a + i - 1]

\* Python slice s[a:b] of a sequence (negative bounds count from the end)
PyNorm(i, n) == IF i < 0 THEN MaxI(i + n, 0) ELSE MinI(i, n)
PySlice(s, a, b) ==
    LET lo == PyNorm(a, Len(s))
        hi == PyNorm(b, Len(s))
    IN  IF lo < hi THEN SubSeq(s, lo + 1, hi) ELSE <<>>

RECURSIVE Flatten(_)
Flatten(ss) == IF Len(ss) = 0 THEN <<>> ELSE Head(ss) \o Flatten(Tail(ss))

\* row @ params
RECURSIVE DotFrom(_, _, _)
DotFrom(row, p, j) ==
    IF j > Len(row) THEN 0 ELSE Add(Mul(row[j], p[j]), DotFrom(row, p, j + 1))
Dot(row, p) == DotFrom(row, p, 1)

NanRow(k) == [c \in 1..k |-> NaN]

\* ------------------------------------------------- tagged order arguments
ONone == [tag |-> "none", n |-> 0, s |-> <<>>]
OInt(k) == [tag |-> "int", n |-> k, s |-> <<>>]
ONpInt(k) == [tag |-> "npint", n |-> k, s |-> <<>>]   \* a numpy integer
OSeq(l) == [tag |-> "seq", n |-> 0, s |-> l]
\* m: the items of the mapping, a sequence of [key, val]
OMap(m) == [tag |-> "map", n |-> 0, s |-> <<>>, m |-> m]
NoneInt == -1      \* an optional integer argument left at None

\* ----------------------------------------------------------- _check_order
\* "ok" when the function returns True, else the exception it raises.  All
\* entries are integers here, so the TypeError branch is not reachable; an
\* empty sequence passes the distinctness test and then min() raises
\* ValueError.
check_order(order, causal) ==
    IF order.tag = "none" THEN "ok"
    ELSE IF order.tag \in {"int", "npint"}
    THEN IF order.n < B2I(causal) THEN "ValueError" ELSE "ok"
    ELSE LET o == order.s IN
         IF Len(o) = 0 THEN "ValueError"
         ELSE IF Cardinality(Range(o)) # Len(o) \/ SeqMin(o) < 0
         THEN "ValueError"
         ELSE IF B2I(causal) # 0 /\ SeqMin(o) < 1 THEN "ValueError"
         ELSE "ok"

\* ---------------------------------------------------------- _format_order
\* exog: the exogenous columns (<<>> is None); keys are column indices.
FirstBad(m, causal) ==
    LET bad == {i \in 1..Len(m) : check_order(m[i].val, causal) # "ok"}
    IN  IF bad = {} THEN "ok"
        ELSE check_order(m[CHOOSE i \in bad : \A k \in bad : i <= k].val, causal)

RECURSIVE final_order(_, _)
final_order(exog_order, causal) ==
    IF Len(exog_order) = 0 THEN <<>>
    ELSE LET e == Head(exog_order)
             rest == final_order(Tail(exog_order), causal)
         IN  IF e.val.tag = "none" THEN rest
             ELSE IF e.val.tag = "int"
             THEN <<[key |-> e.key,
                     lags |-> PyRange(B2I(causal), e.val.n + 1)]>> \o rest
             ELSE <<[key |-> e.key, lags |-> e.val.s]>> \o rest

format_order(exog, order, causal) ==
    LET keys == PyRange(0, Len(exog))
        empty == [err |-> "ok", warn |-> FALSE, ord |-> <<>>]
        fail(e) == [err |-> e, warn |-> FALSE, ord |-> <<>>]
    IN
    IF Len(exog) = 0 /\ (order.tag = "none"
                          \/ (order.tag \in {"int", "npint"} /\ order.n = 0))
    THEN empty
    ELSE IF Len(exog) = 0 THEN fail("ValueError")
    ELSE IF order.tag = "none" THEN empty
    ELSE IF order.tag = "map"
    THEN LET mkeys == {order.m[i].key : i \in 1..Len(order.m)}
             missing == Range(keys) \ mkeys
             extra == mkeys \ Range(keys)
         IN  IF extra # {} THEN fail("ValueError")
             ELSE IF FirstBad(order.m, causal) # "ok"
             THEN [err |-> FirstBad(order.m, causal),
                   warn |-> missing # {}, ord |-> <<>>]
             \* line 131 tests isinstance(..., int) only: a numpy integer
             \* falls to the list branch and iterating over it raises
             ELSE IF \E i \in 1..Len(order.m) : order.m[i].val.tag = "npint"
             THEN [err |-> "TypeError", warn |-> missing # {}, ord |-> <<>>]
             ELSE [err |-> "ok", warn |-> missing # {},
                   ord |-> final_order(order.m, causal)]
    ELSE IF check_order(order, causal) # "ok"
    THEN fail(check_order(order, causal))
    ELSE [err |-> "ok", warn |-> FALSE,
          ord |-> final_order([i \in 1..Len(keys) |->
                                  [key |-> keys[i],
                                   val |-> IF order.tag = "npint"
                                           THEN OInt(order.n) ELSE order]],
                              causal)]

\* ----------------------------------------------------------------- lagmat
\* Entry at row t of the column holding lag L of a series: the value L steps
\* earlier, PadVal before the first observation.
LagEntry(col, t, L) == IF t - L >= 0 THEN col[t - L + 1] ELSE PadVal

\* ----------------------------------------------------------- _format_exog
\* Row t of the exogenous-lag blocks, one block per entry of `order`, in the
\* iteration order of `order`; the block of key k holds exog[:, k] at the
\* lags listed for k.
RECURSIVE format_exog_row(_, _, _)
format_exog_row(exog, order, t) ==
    IF Len(order) = 0 THEN <<>>
    ELSE LET e == Head(order)
         IN  [j \in 1..Len(e.lags) |-> LagEntry(exog[e.key + 1], t, e.lags[j])]
             \o format_exog_row(exog, Tail(order), t)

\* ------------------------------------------------- deterministic process
\* in_sample() / out_of_sample(): trend "n" has no column, "c" a constant,
\* "ct" a constant and a linear trend 1, 2, 3, ...
DetCols(trend) == IF trend = "n" THEN 0 ELSE IF trend = "c" THEN 1 ELSE 2
DetRow(trend, t) ==
    IF trend = "n" THEN <<>> ELSE IF trend = "c" THEN <<1>> ELSE <<1, t + 1>>

FixedRow(fixed, t) == [c \in 1..Len(fixed) |-> fixed[c][t + 1]]

\* ------------------------------------------------ ARDL._initialize_model
ExpandLags(lagsArg) ==
    IF lagsArg.tag = "none" THEN <<>>
    ELSE IF lagsArg.tag \in {"int", "npint"} THEN PyRange(1, lagsArg.n + 1)
    ELSE lagsArg.s

\* The lag held by each column of self._endog_reg: lagmat yields lags
\* 1..maxlag, and the columns of self._lags are picked only when the number
\* of columns differs from the number of lags.
EndogRegLags(lags) ==
    IF Len(lags) = 0 THEN <<>>
    ELSE IF SeqMax(lags) # Len(lags) THEN lags
    ELSE PyRange(1, SeqMax(lags) + 1)

OrderMaxLag(order) ==
    IF Len(order) = 0 THEN 0
    ELSE SeqMax([i \in 1..Len(order) |-> SeqMax(order[i].lags)])
OrderMinLag(order) ==
    SeqMin([i \in 1..Len(order) |-> SeqMin(order[i].lags)])

\* Untrimmed row t of the stacked regressors
\* [deterministic, endog lags, exog lags ..., fixed]
StackRow(endog, exog, fixed, trend, arcols, order, t) ==
    DetRow(trend, t)
    \o [j \in 1..Len(arcols) |-> LagEntry(endog, t, arcols[j])]
    \o format_exog_row(exog, order, t)
    \o FixedRow(fixed, t)

\* lines 394 and 410-421, _format_exog line 162: the parameter names, a
\* name being the block, the variable and the lag it names
param_names(trend, lags, order, fixed) ==
    [i \in 1..DetCols(trend) |-> [blk |-> "det", var |-> i - 1, lag |-> 0]]
    \o [j \in 1..Len(lags) |-> [blk |-> "y", var |-> 0, lag |-> lags[j]]]
    \o Flatten([i \in 1..Len(order) |->
                  [j \in 1..Len(order[i].lags) |->
                      [blk |-> "x", var |-> order[i].key,
                       lag |-> order[i].lags[j]]]])
    \o [c \in 1..Len(fixed) |-> [blk |-> "z", var |-> c - 1, lag |-> 0]]

\* faulty variant: the exogenous lags are not counted
model_maxlag_ar_only(armax, order) == armax

\* lines 386 and 399-402: the largest lag of the response or of any
\* exogenous variable
model_maxlag(armax, order) == MaxI(armax, OrderMaxLag(order))

\* faulty variant: one column more than rows is let through
too_many_regressors_off_by_one(ncols, nrows) == ncols > nrows + 1

\* line 433: the trimmed matrix has more columns than rows
too_many_regressors(ncols, nrows) == ncols > nrows

initialize_model(endog, exog, fixed, trend, lagsArg, orderArg, causalArg, hb) ==
    LET lags == ExpandLags(lagsArg)
        armax == IF Len(lags) = 0 THEN 0 ELSE SeqMax(lags)
        fo == format_order(exog, orderArg, causalArg)
        maxlag == model_maxlag(armax, fo.ord)
        hold_back == IF hb = NoneInt THEN maxlag ELSE hb
        n == Len(endog)
        ncols == DetCols(trend) + Len(lags)
                 + Len(format_exog_row(exog, fo.ord, 0)) + Len(fixed)
        nrows == MaxI(n - hold_back, 0)
        bad(e) == [err |-> e, warn |-> fo.warn, lags |-> <<>>, order |-> <<>>,
                   maxlag |-> 0, hold_back |-> 0, x |-> <<>>, y |-> <<>>]
    IN
    IF armax >= n THEN bad("ValueError")            \* lagmat: maxlag >= nobs
    \* AutoReg.__init__ (line 309) rejects a hold_back below the largest
    \* autoregressive lag before the order is looked at
    ELSE IF hb # NoneInt /\ hb < armax
    THEN [bad("ValueError") EXCEPT !.warn = FALSE]
    ELSE IF fo.err # "ok" THEN bad(fo.err)
    ELSE IF OrderMaxLag(fo.ord) >= n THEN bad("ValueError")
    ELSE IF hold_back < maxlag THEN bad("ValueError")
    ELSE IF too_many_regressors(ncols, nrows) THEN bad("ValueError")
    ELSE [err |-> "ok", warn |-> fo.warn, lags |-> lags, order |-> fo.ord,
          maxlag |-> maxlag, hold_back |-> hold_back,
          x |-> [r \in 1..nrows |->
                   StackRow(endog, exog, fixed, trend, EndogRegLags(lags),
                            fo.ord, hold_back + r - 1)],
          y |-> [r \in 1..nrows |-> endog[hold_back + r]]]

\* ARDL.__init__: causality is re-derived from the final lag orders
DeriveCausal(order) ==
    IF Len(order) = 0 THEN TRUE ELSE OrderMinLag(order) > 0


\* ----------------------------------------------------- optional 2-d arrays
NoArr == [given |-> FALSE, cols |-> <<>>]
Arr(cols) == [given |-> TRUE, cols |-> cols]
ArrRows(a) == IF Len(a.cols) = 0 THEN 0 ELSE Len(a.cols[1])
\* np.vstack([a, b[:k]]) on column form
VStackHead(cols, b, k) == [c \in 1..Len(cols) |-> cols[c] \o PySlice(b.cols[c], 0, k)]
NanCols(nc, nr) == [c \in 1..nc |-> [r \in 1..nr |-> NaN]]

\* -------------------------------------------------- ARDL._forecasting_x
\* m: the model (data and fitted structure), xcur: the current self._x.
\* Returns the rows of the forecasting matrix; `view` tells that the result
\* is a basic slice of self._x (pad_x returned its argument unchanged), whose
\* row i is row base + i of self._x.
pad_x(x, pad, k) == IF pad = 0 THEN x ELSE [r \in 1..pad |-> NanRow(k)] \o x

\* The rebuild of lines 551-578: the matrix is assembled again from the
\* model's data, or the replacement data, extended by the out-of-sample
\* rows, and its rows from `start` on are returned.
rebuild_x(m, start, num_oos, exogR, exog_oos, fixedR, fixed_oos) ==
    LET n == Len(m.endog)
        hb == m.hold_back
        k == DetCols(m.trend) + Len(m.lags)
             + Len(format_exog_row(m.exog, m.order, 0)) + Len(m.fixed)
        exog0 == IF exogR.given THEN exogR.cols ELSE m.exog
        exogAll == IF exog_oos.given THEN VStackHead(exog0, exog_oos, num_oos)
                   ELSE exog0
        fixed0 == IF fixedR.given THEN fixedR.cols ELSE m.fixed
        fixedAll == IF fixed_oos.given THEN VStackHead(fixed0, fixed_oos, num_oos)
                    ELSE fixed0
        total == n + num_oos
        endogExt == m.endog \o [i \in 1..num_oos |-> NaN]
        useExog == Len(m.order) > 0
        useFixed == Len(fixedAll) > 0
        exogRows == Len(exogAll[1])
        fixedRows == Len(fixedAll[1])
        full == [r \in 1..total |->
                   IF r - 1 < hb THEN NanRow(k)
                   ELSE StackRow(endogExt, exogAll, fixedAll, m.trend, m.lags,
                                 m.order, r - 1)]
    IN
    IF (useExog /\ exogRows # total) \/ (useFixed /\ fixedRows # total)
    THEN [err |-> "ValueError", view |-> FALSE, base |-> 0, x |-> <<>>]
    ELSE [err |-> "ok", view |-> FALSE, base |-> 0,
          x |-> PySlice(full, start, total)]

forecasting_x(m, xcur, start, end, num_oos, exogR, exog_oos, fixedR, fixed_oos) ==
    LET n == Len(m.endog)
        hb == m.hold_back
        pad == IF start >= hb THEN 0 ELSE hb - start
        k == DetCols(m.trend) + Len(m.lags)
             + Len(format_exog_row(m.exog, m.order, 0)) + Len(m.fixed)
        adjusted_start == MaxI(start - hb, 0)
    IN
    IF end + 1 < n /\ ~exogR.given /\ ~fixedR.given
    THEN [err |-> "ok", view |-> pad = 0, base |-> adjusted_start,
          x |-> pad_x(PySlice(xcur, adjusted_start, end + 1 - hb), pad, k)]
    ELSE rebuild_x(m, start, num_oos, exogR, exog_oos, fixedR, fixed_oos)

\* --------------------------------------------------------- ARDL.predict
DynFalse == -1     \* the argument dynamic=False

\* faulty variant: the exogenous lags are left out of the minimum
max_1step_ar_only(m) ==
    IF Len(m.fixed) > 0 \/ ~m.causal THEN 0
    ELSE IF Len(m.lags) = 0 THEN Inf ELSE SeqMin(m.lags)

max_1step(m) ==
    IF Len(m.fixed) > 0 \/ ~m.causal THEN 0
    ELSE LET a == IF Len(m.lags) = 0 THEN Inf ELSE SeqMin(m.lags)
         IN  IF Len(m.order) > 0 THEN MinI(a, OrderMinLag(m.order)) ELSE a

\* The checks of lines 694-717: "ok" or the exception raised
oos_check(m, num_oos, exog_oos, fixed_oos) ==
    IF num_oos > max_1step(m)
    THEN IF Len(m.order) > 0 /\ ~exog_oos.given THEN "ValueError"
         ELSE IF Len(m.order) > 0 /\ ArrRows(exog_oos) + max_1step(m) < num_oos
         THEN "ValueError"
         ELSE IF Len(m.fixed) > 0 /\ ~fixed_oos.given THEN "ValueError"
         ELSE IF Len(m.fixed) > 0 /\ ArrRows(fixed_oos) < num_oos
         THEN "ValueError"
         ELSE "ok"
    ELSE "ok"

\* faulty variant: dynamic=False is read as the offset 0
dynamic_start_false_as_zero(m, start, end, dynamic) ==
    LET d == IF dynamic = DynFalse THEN 0 ELSE dynamic
    IN  IF start < m.hold_back THEN MaxI(d, m.hold_back - start) ELSE d

\* faulty variant: the offset is not clamped to hold_back
dynamic_start_unclamped(m, start, end, dynamic) ==
    IF dynamic = DynFalse THEN end + 1 - start ELSE dynamic

dynamic_start(m, start, end, dynamic) ==
    IF dynamic = DynFalse THEN end + 1 - start
    ELSE IF start < m.hold_back THEN MaxI(dynamic, m.hold_back - start)
    ELSE dynamic

\* One pass of the inner loop over the autoregressive lags for output row i.
\* st = [x, f, err]: the local matrix, the forecasts and the error raised.
\* self.endog[start + loc] follows Python indexing: a negative index counts
\* from the end, an index outside [-nobs, nobs) raises IndexError, and the
\* columns written before the failing lag stay written.
\* faulty variant: always reads the observed response, never an earlier forecast
dyn_row_static(m, params, start, ds, st, i) ==
    LET n == Len(m.endog)
        offset == DetCols(m.trend)
        idx(j) == start + i - m.lags[j]
        bad == {j \in 1..Len(m.lags) : idx(j) >= n \/ idx(j) < -n}
        row == [c \in 1..Len(st.x[i + 1]) |->
                  IF c - offset >= 1 /\ c - offset <= Len(m.lags)
                  THEN IF idx(c - offset) >= 0
                       THEN m.endog[idx(c - offset) + 1]
                       ELSE m.endog[idx(c - offset) + n + 1]
                  ELSE st.x[i + 1][c]]
    IN  IF bad # {} THEN [x |-> st.x, f |-> st.f, err |-> "IndexError"]
        ELSE [x |-> [st.x EXCEPT ![i + 1] = row],
              f |-> [st.f EXCEPT ![i + 1] = Dot(row, params)], err |-> "ok"]

dyn_row(m, params, start, ds, st, i) ==
    LET n == Len(m.endog)
        offset == DetCols(m.trend)
        loc(j) == i - m.lags[j]
        idx(j) == start + loc(j)
        fails(j) == loc(j) < ds /\ (idx(j) >= n \/ idx(j) < -n)
        bad == {j \in 1..Len(m.lags) : fails(j)}
        stop == IF bad = {} THEN Len(m.lags) + 1
                ELSE CHOOSE j \in bad : \A q \in bad : j <= q
        val(j) == IF loc(j) >= ds THEN st.f[loc(j) + 1]
                  ELSE IF idx(j) >= 0 THEN m.endog[idx(j) + 1]
                  ELSE m.endog[idx(j) + n + 1]
        row == [c \in 1..Len(st.x[i + 1]) |->
                  IF c - offset >= 1 /\ c - offset < stop THEN val(c - offset)
                  ELSE st.x[i + 1][c]]
        x2 == [st.x EXCEPT ![i + 1] = row]
    IN  IF bad # {} THEN [x |-> x2, f |-> st.f, err |-> "IndexError"]
        ELSE [x |-> x2, f |-> [st.f EXCEPT ![i + 1] = Dot(row, params)],
              err |-> "ok"]

\* faulty variant: the loop starts one row late, leaving row dynamic_start
\* as _forecasting_x built it and its forecast unset
RECURSIVE dyn_loop_late(_, _, _, _, _, _)
dyn_loop_late(m, params, start, ds, st, i) ==
    IF i >= Len(st.f) \/ st.err # "ok" THEN st
    ELSE IF i = ds THEN dyn_loop_late(m, params, start, ds, st, i + 1)
    ELSE dyn_loop_late(m, params, start, ds,
                       dyn_row(m, params, start, ds, st, i), i + 1)

\* for i in range(dynamic_start, fcasts.shape[0])
RECURSIVE dyn_loop(_, _, _, _, _, _)
dyn_loop(m, params, start, ds, st, i) ==
    IF i >= Len(st.f) \/ st.err # "ok" THEN st
    ELSE dyn_loop(m, params, start, ds, dyn_row(m, params, start, ds, st, i), i + 1)

\* The whole call.  Returns the forecasts, the local matrix after the loop,
\* the matrix returned by _forecasting_x and self._x after the call.
predict(m, xcur, params, q) ==
    LET chk == oos_check(m, q.num_oos, q.exog_oos, q.fixed_oos)
        oos2 == IF Len(m.exog) > 0 /\ ~q.exog_oos.given /\ q.num_oos > 0
                THEN Arr(NanCols(Len(m.exog), q.num_oos)) ELSE q.exog_oos
        fx == forecasting_x(m, xcur, q.start, q.end, q.num_oos,
                            q.exog, oos2, q.fixed, q.fixed_oos)
        ds == dynamic_start(m, q.start, q.end, q.dynamic)
        rows == Len(fx.x)
        f0 == [i \in 1..rows |-> IF i - 1 < ds THEN Dot(fx.x[i], params) ELSE NaN]
        st == dyn_loop(m, params, q.start, ds,
                       [x |-> fx.x, f |-> f0, err |-> "ok"], ds)
        xnew == IF fx.view
                THEN [r \in 1..Len(xcur) |->
                        IF r - 1 - fx.base >= 0 /\ r - 1 - fx.base < rows
                        THEN st.x[r - fx.base] ELSE xcur[r]]
                ELSE xcur
        fail(e, xs) == [err |-> e, fcasts |-> <<>>, x0 |-> <<>>, x1 |-> <<>>,
                        ds |-> 0, self_x |-> xs]
    IN  IF chk # "ok" THEN fail(chk, xcur)
        ELSE IF fx.err # "ok" THEN fail(fx.err, xcur)
        ELSE IF st.err # "ok" THEN fail(st.err, xnew)
        ELSE [err |-> "ok", fcasts |-> st.f, x0 |-> fx.x, x1 |-> st.x,
              ds |-> ds, self_x |-> xnew]


\* ------------------------------------------------------------------ state
VARIABLES
    mstate,    \* "none", "failed" (constructor raised), "built", "fitted"
    model,     \* the data and the attributes set by __init__
    self_x,    \* self._x, the trimmed design matrix
    self_y,    \* self._y, the trimmed response
    params,    \* coefficients returned by fit
    calls,     \* number of predict calls made so far
    req,       \* arguments of the last predict call
    res,       \* its outcome
    sel,       \* arguments and outcome of the last ardl_select_order call
    chk        \* argument and outcome of the last lag-spec validation

vars == <<mstate, model, self_x, self_y, params, calls, req, res, sel, chk>>

\* ------------------------------------------------------------- input data
EndogSeriesN(c, n) ==
    [i \in 1..n |-> IF c = 1 THEN i + 1 ELSE ((i * i + 2) % 5) + 1]
EndogSeries(c) == EndogSeriesN(c, NObs)
ExogColN(v, n) == [i \in 1..n |-> 10 + 5 * v + ((3 * i) % 4)]
ExogCol(v) == ExogColN(v, NObs)
ExogReplCol(v) == [i \in 1..NObs |-> 40 + 5 * v + (i % 3)]
ExogOosCol(v, rows) == [i \in 1..rows |-> 70 + 5 * v + i]
FixedColN(n) == [i \in 1..n |-> 6 - (i % 2)]
FixedCol == FixedColN(NObs)
FixedReplCol == [i \in 1..NObs |-> 8 + (i % 2)]
FixedOosCol(rows) == [i \in 1..rows |-> 20 + i]

\* constructor arguments tried: [endog, exog, fixed, trend, lags, order,
\* causal, hold_back], each field the set of values of one argument
AllArgs ==
    [endog |-> {EndogSeries(1)}, exog |-> {<<>>, <<ExogCol(0)>>},
     fixed |-> {<<>>, <<FixedCol>>}, trend |-> {"n", "c"},
     lags |-> {ONone, OInt(1), OInt(2), OSeq(<<2>>), OSeq(<<2, 1>>)},
     order |-> {ONone, OInt(1), OSeq(<<1>>), OSeq(<<2>>)},
     causal |-> BOOLEAN, hold_back |-> {NoneInt, 3}]
\* coefficient vectors handed back by the estimator for k regressors
ParamChoices(k) == {[j \in 1..k |-> j + 1], [j \in 1..k |-> (j + 1) % 2]}

NoModel == [endog |-> <<>>, exog |-> <<>>, fixed |-> <<>>, trend |-> "n",
            lags |-> <<>>, order |-> <<>>, hold_back |-> 0, maxlag |-> 0,
            causal |-> FALSE]
NoReq == [start |-> 0, end |-> 0, num_oos |-> 0, dynamic |-> DynFalse,
          exog |-> NoArr, exog_oos |-> NoArr, fixed |-> NoArr,
          fixed_oos |-> NoArr]
NoRes == [err |-> "none", fcasts |-> <<>>, x0 |-> <<>>, x1 |-> <<>>, ds |-> 0]
NoSel == [state |-> "none"]
NoChk == [state |-> "none"]

Init ==
    /\ mstate = "none"
    /\ model = NoModel
    /\ self_x = <<>>
    /\ self_y = <<>>
    /\ params = <<>>
    /\ calls = 0
    /\ req = NoReq
    /\ res = NoRes
    /\ sel = NoSel
    /\ chk = NoChk

\* A mapping order is tried only with exogenous data
ValidArgs(exog, orderArg) == orderArg.tag = "map" => Len(exog) > 0

\* ARDL.__init__ on arguments drawn from A; with `record` the arguments and
\* the outcome of the validation are kept in chk
ConstructCore(A, record) ==
    /\ mstate = "none"
    /\ \E endog \in A.endog, exog \in A.exog, fixed \in A.fixed,
          trend \in A.trend, lagsArg \in A.lags, orderArg \in A.order,
          causalArg \in A.causal, hb \in A.hold_back :
          LET im == initialize_model(endog, exog, fixed, trend,
                                     lagsArg, orderArg, causalArg, hb)
          IN
          /\ ValidArgs(exog, orderArg)
          /\ chk' = IF record
                    THEN [state |-> "init", exog |-> exog, fixed |-> fixed,
                          trend |-> trend, lags |-> lagsArg,
                          order |-> orderArg, causal |-> causalArg,
                          hold_back |-> hb, err |-> im.err, warn |-> im.warn,
                          formatted |-> format_order(exog, orderArg,
                                                     causalArg)]
                    ELSE chk
          /\ IF im.err # "ok"
              THEN /\ mstate' = "failed"
                   /\ UNCHANGED <<model, self_x, self_y>>
              ELSE /\ mstate' = "built"
                   /\ model' = [endog |-> endog, exog |-> exog,
                                fixed |-> fixed, trend |-> trend,
                                lags |-> im.lags, order |-> im.order,
                                hold_back |-> im.hold_back,
                                maxlag |-> im.maxlag,
                                causal |-> DeriveCausal(im.order)]
                   /\ self_x' = im.x
                   /\ self_y' = im.y
    /\ UNCHANGED <<params, calls, req, res, sel>>

ConstructFrom(A) == ConstructCore(A, FALSE)

Construct == ConstructFrom(AllArgs)

NCols(m) == DetCols(m.trend) + Len(m.lags)
            + Len(format_exog_row(m.exog, m.order, 0)) + Len(m.fixed)

\* ARDL.fit: the estimator returns one coefficient per regressor
Fit ==
    /\ mstate = "built"
    /\ \E p \in ParamChoices(NCols(model)) : params' = p
    /\ mstate' = "fitted"
    /\ UNCHANGED <<model, self_x, self_y, calls, req, res, sel, chk>>

\* The requests _prepare_prediction hands on: end is the last in-sample
\* index of the request and num_oos the further out-of-sample steps, which
\* are non-zero only when the request runs past the last observation.
\* Replacement data replace every array the model has; out-of-sample data
\* come only with out-of-sample requests.
Requests(m) ==
    LET n == Len(m.endog)
        repl == [exog |-> IF Len(m.exog) = 0 THEN NoArr
                          ELSE Arr(<<ExogReplCol(0)>>),
                 fixed |-> IF Len(m.fixed) = 0 THEN NoArr
                           ELSE Arr(<<FixedReplCol>>)]
        optRepl == {[exog |-> NoArr, fixed |-> NoArr], repl}
        optExogOos == IF Len(m.exog) = 0 THEN {NoArr}
                      ELSE {NoArr} \cup
                           {Arr(<<ExogOosCol(0, r)>>) : r \in 1..MaxOos}
        optFixedOos == IF Len(m.fixed) = 0 THEN {NoArr}
                       ELSE {NoArr, Arr(<<FixedOosCol(MaxOos)>>)}
    IN  {[start |-> se[1], end |-> se[2], num_oos |-> k, dynamic |-> d,
          exog |-> rp.exog, exog_oos |-> xo, fixed |-> rp.fixed,
          fixed_oos |-> fo] :
            se \in {p \in (0..n) \X (0..(n - 1)) : p[1] <= p[2] + 1},
            k \in 0..MaxOos, d \in {DynFalse} \cup 0..MaxDynamic,
            rp \in optRepl, xo \in optExogOos, fo \in optFixedOos}

ValidRequest(m, q) ==
    /\ (q.start = q.end + 1 => q.num_oos > 0)
    /\ (q.num_oos > 0 => q.end = Len(m.endog) - 1)
    /\ (q.num_oos = 0 => ~q.exog_oos.given /\ ~q.fixed_oos.given)

\* ARDL.predict, at most `limit` calls on one model
PredictUpTo(limit) ==
    /\ mstate = "fitted"
    /\ calls < limit
    /\ \E q \in Requests(model) :
          /\ ValidRequest(model, q)
          /\ \E r \in {predict(model, self_x, params, q)} :
                 /\ req' = q
                 /\ res' = [err |-> r.err, fcasts |-> r.fcasts, x0 |-> r.x0,
                            x1 |-> r.x1, ds |-> r.ds]
                 /\ self_x' = r.self_x
    /\ calls' = calls + 1
    /\ UNCHANGED <<mstate, model, self_y, params, sel, chk>>

Predict == PredictUpTo(1)

Next == Construct \/ Fit \/ Predict

Spec == Init /\ [][Next]_vars

\* ------------------------------------------------------ ardl_select_order
\* itertools.combinations(range(m), i) with first element >= lo, in order
RECURSIVE combinations(_, _, _)
combinations(lo, m, i) ==
    IF i = 0 THEN << <<>> >>
    ELSE Flatten([a \in 1..MaxI(m - i + 1 - lo, 0) |->
                    LET first == lo + a - 1
                        rest == combinations(first + 1, m, i - 1)
                    IN  [r \in 1..Len(rest) |-> <<first>> \o rest[r]]])

\* itertools.product(*iter_orders), iter_orders[b] = range(sizes[b] + 1)
RECURSIVE product(_)
product(sizes) ==
    IF Len(sizes) = 0 THEN << <<>> >>
    ELSE LET rest == product(Tail(sizes))
         IN  Flatten([a \in 1..(Head(sizes) + 1) |->
                        [r \in 1..Len(rest) |-> <<a - 1>> \o rest[r]]])

\* keys of the candidate columns: [var, lag], var = NoneInt for the response
select_keys(lags, order) ==
    [j \in 1..Len(lags) |-> [var |-> NoneInt, lag |-> lags[j]]]
    \o Flatten([i \in 1..Len(order) |->
                  [j \in 1..Len(order[i].lags) |->
                     [var |-> order[i].key, lag |-> order[i].lags[j]]]])

\* lags of variable v picked by perm, in the order of perm
PickLags(keys, perm, v) ==
    LET RECURSIVE pick(_)
        pick(p) == IF Len(p) = 0 THEN <<>>
                   ELSE IF keys[Head(p) + 1].var = v
                        THEN <<keys[Head(p) + 1].lag>> \o pick(Tail(p))
                        ELSE pick(Tail(p))
    IN  pick(perm)

\* variables other than the response in order of first appearance in ks
RECURSIVE FirstVars(_, _)
FirstVars(ks, seen) ==
    IF Len(ks) = 0 THEN <<>>
    ELSE IF Head(ks).var = NoneInt \/ Head(ks).var \in seen
         THEN FirstVars(Tail(ks), seen)
         ELSE <<Head(ks).var>> \o FirstVars(Tail(ks), seen \cup {Head(ks).var})

\* A SelectionKey: y is the first component (an int, a tuple or None) and
\* x the sequence of (variable, order) pairs that follow it.
perm_to_tuple(keys, perm) ==
    IF Len(perm) = 0
    THEN [y |-> OInt(0),
          x |-> LET vs == FirstVars(keys, {})
                IN  [i \in 1..Len(vs) |-> [key |-> vs[i], val |-> OInt(0)]]]
    ELSE LET y_lags == PickLags(keys, perm, NoneInt)
             chosen == FirstVars([i \in 1..Len(perm) |-> keys[perm[i] + 1]], {})
             others == FirstVars(keys, Range(chosen))
         IN  [y |-> IF Len(y_lags) = 0 \/ y_lags = <<0>> THEN OInt(0)
                    ELSE OSeq(y_lags),
              x |-> [i \in 1..Len(chosen) |->
                       [key |-> chosen[i],
                        val |-> OSeq(PickLags(keys, perm, chosen[i]))]]
                    \o [i \in 1..Len(others) |->
                          [key |-> others[i], val |-> ONone]]]

\* faulty variant: the non-causal test is val - 1 > 0, so a variable kept at
\* lag 0 only gets the key of an excluded one
nested_key_off_by_one(io, var_names, causal) ==
    [y |-> IF io[1] # 0 THEN OInt(io[1]) ELSE ONone,
     x |-> [j \in 1..(Len(io) - 1) |->
              [key |-> var_names[j],
               val |-> IF causal
                       THEN IF io[j + 1] = 0 THEN ONone ELSE OInt(io[j + 1])
                       ELSE IF io[j + 1] - 1 > 0 THEN OInt(io[j + 1] - 1)
                            ELSE ONone]]]

\* faulty variant: the causal key is shifted like the non-causal one
nested_key_causal_shift(io, var_names, causal) ==
    [y |-> IF io[1] # 0 THEN OInt(io[1]) ELSE ONone,
     x |-> [j \in 1..(Len(io) - 1) |->
              [key |-> var_names[j],
               val |-> IF io[j + 1] - 1 >= 0 THEN OInt(io[j + 1] - 1)
                       ELSE ONone]]]

\* key of the nested candidate io = (p, q_1, ..., q_k)
nested_key(io, var_names, causal) ==
    [y |-> IF io[1] # 0 THEN OInt(io[1]) ELSE ONone,
     x |-> [j \in 1..(Len(io) - 1) |->
              [key |-> var_names[j],
               val |-> IF causal
                       THEN IF io[j + 1] = 0 THEN ONone ELSE OInt(io[j + 1])
                       ELSE IF io[j + 1] - 1 >= 0 THEN OInt(io[j + 1] - 1)
                            ELSE ONone]]]

\* columns of the stacked candidate matrix kept by the nested candidate io
nested_columns(io, sizes) ==
    LET RECURSIVE cols(_, _)
        cols(b, off) ==
            IF b > Len(sizes) THEN <<>>
            ELSE PyRange(off, off + io[b]) \o cols(b + 1, off + sizes[b])
    IN  cols(1, 0)

\* compute_ics: (aic, bic, hqic) of the regression on the columns perm.
\* The residual sum of squares is abstracted: column c changes the
\* criterion by gain[c], and each column adds a penalty.
ICBase == 100
RECURSIVE SumGain(_, _)
SumGain(gain, perm) ==
    IF Len(perm) = 0 THEN 0 ELSE gain[Head(perm) + 1] + SumGain(gain, Tail(perm))
compute_ics(gain, perm) ==
    LET v == ICBase + SumGain(gain, perm)
    IN  <<v, v + Len(perm), v + 2 * Len(perm)>>

\* The dict left by executing ics[key] = value for the items in order: a
\* key keeps the position of its first assignment and the value of its last.
dict_fill(items) ==
    LET isFirst(i) == \A j \in 1..(i - 1) : items[j].key # items[i].key
        firsts == SelectSeq([i \in 1..Len(items) |-> i], isFirst)
        last(i) == LET same == {j \in i..Len(items) :
                                   items[j].key = items[i].key}
                   IN  CHOOSE j \in same : \A q \in same : q <= j
    IN  [k \in 1..Len(firsts) |-> items[last(firsts[k])]]

\* the entries scored, in scoring order: [key, val, perm]
scored(lags, order, causal, glob, gain) ==
    LET keys == select_keys(lags, order)
        m == Len(keys)
        sizes == <<Len(lags)>> \o [i \in 1..Len(order) |-> Len(order[i].lags)]
        var_names == [i \in 1..Len(order) |-> order[i].key]
    IN  IF glob
        THEN LET perms == Flatten([i \in 1..m |-> combinations(0, m, i - 1)])
             IN  [r \in 1..Len(perms) |->
                    [key |-> perm_to_tuple(keys, perms[r]),
                     val |-> compute_ics(gain, perms[r]), perm |-> perms[r]]]
        ELSE LET ios == product(sizes)
             IN  [r \in 1..Len(ios) |->
                    [key |-> nested_key(ios[r], var_names, causal),
                     val |-> compute_ics(gain, nested_columns(ios[r], sizes)),
                     perm |-> nested_columns(ios[r], sizes)]]

\* the loop of lines 1328-1333: index of the selected entry, 0 when no
\* entry was below the initial np.inf (selected_order is then unbound)
\* faulty variant: a candidate also replaces the current best on an equal value
RECURSIVE select_from_le(_, _, _, _, _)
select_from_le(ics, index, i, lowest, best) ==
    IF i > Len(ics) THEN best
    ELSE IF ~Lt(lowest, ics[i].val[index])
         THEN select_from_le(ics, index, i + 1, ics[i].val[index], i)
         ELSE select_from_le(ics, index, i + 1, lowest, best)

RECURSIVE select_from(_, _, _, _, _)
select_from(ics, index, i, lowest, best) ==
    IF i > Len(ics) THEN best
    ELSE IF Lt(ics[i].val[index], lowest)
         THEN select_from(ics, index, i + 1, ics[i].val[index], i)
         ELSE select_from(ics, index, i + 1, lowest, best)

\* ARDLOrderSelectionResults._to_dict: (d[0], dict(d[1:]))
to_dict(key) == [y |-> key.y, x |-> dict_fill(key.x)]

\* Series.sort_index on items with pairwise distinct keys: ascending keys
sort_index(items) ==
    [k \in 1..Len(items) |->
        items[CHOOSE i \in 1..Len(items) :
                 Cardinality({j \in 1..Len(items) :
                                 items[j].key < items[i].key}) = k - 1]]

\* lines 1111-1127: the table of criterion c, a dict from the criterion
\* value to the lag structure, sorted by value
ic_table(ics, c) ==
    sort_index(dict_fill([i \in 1..Len(ics) |->
                             [key |-> ics[i].val[c],
                              val |-> to_dict(ics[i].key)]]))

\* The outcome of the call from its stages: the maximal model, the
\* criterion table, the index of the selected entry and the refit model
select_result(base, ics, best, refit, causal, glob, index, hold_back) ==
    LET out(st, i, b, so, mo) ==
            [state |-> st, glob |-> glob, causal |-> causal, index |-> index,
             hold_back |-> hold_back,
             base |-> [err |-> base.err, lags |-> base.lags,
                       order |-> base.order, hold_back |-> base.hold_back,
                       maxlag |-> base.maxlag],
             \* y = base._y: the rows every candidate is scored on
             rows |-> Len(base.y),
             ics |-> i, best |-> b, selected_order |-> so, model |-> mo,
             tables |-> IF st = "ok" THEN [c \in 1..3 |-> ic_table(i, c)]
                        ELSE <<>>]
        nokey == [y |-> ONone, x |-> <<>>]
        nomodel == [lags |-> <<>>, order |-> <<>>, hold_back |-> 0,
                    maxlag |-> 0, nobs |-> 0]
    IN  IF base.err # "ok" THEN out(base.err, <<>>, 0, nokey, nomodel)
        ELSE IF best = 0 THEN out("UnboundLocalError", ics, 0, nokey, nomodel)
        ELSE IF refit.err # "ok"
        THEN out(refit.err, ics, best, ics[best].key, nomodel)
        ELSE out("ok", ics, best, ics[best].key,
                 [lags |-> refit.lags, order |-> refit.order,
                  hold_back |-> refit.hold_back, maxlag |-> refit.maxlag,
                  nobs |-> Len(refit.y)])

\* faulty variant: the refit leaves hold_back at its default
refit_model_default_hold_back(endog, exog, key, causal, hold_back) ==
    initialize_model(endog, exog, <<>>, "c", key.y, OMap(key.x), causal,
                     NoneInt)

\* ARDL(endog, selected_order[0], exog, exog_order, ..., hold_back=hold_back)
refit_model(endog, exog, key, causal, hold_back) ==
    initialize_model(endog, exog, <<>>, "c", key.y, OMap(key.x), causal,
                     hold_back)

GainVals == {-2, 0}
\* ardl_select_order with trend "c" and no fixed regressors, on nv
\* exogenous variables, with the hold_back hb and the search mode glob
SelectCore(nvs, hbs, globs) ==
    /\ sel.state = "none"
    /\ \E maxlag \in 0..MaxSelLag, nv \in nvs, hb \in hbs,
          maxorder \in 0..MaxSelOrder, causal \in BOOLEAN, glob \in globs,
          index \in 1..3 :
          LET endog == EndogSeriesN(1, SelNObs)
              exog == [v \in 1..nv |-> ExogColN(v - 1, SelNObs)]
              m == maxlag + nv * (maxorder + 1 - B2I(causal))
          IN  /\ m <= MaxSelCols
              /\ \E gain \in [1..MaxI(m, 0) -> GainVals] :
                 \E base \in {initialize_model(endog, exog, <<>>, "c",
                              OInt(maxlag), OInt(maxorder), causal, hb)} :
                 \E ics \in {dict_fill(scored(base.lags, base.order, causal,
                                            glob, gain))} :
                 \E best \in {select_from(ics, index, 1, Inf, 0)} :
                 \E refit \in {IF best = 0 THEN base
                               ELSE refit_model(endog, exog, ics[best].key,
                                                causal, base.hold_back)} :
                    sel' = select_result(base, ics, best, refit, causal, glob,
                                         index, hb)
    /\ UNCHANGED <<mstate, model, self_x, self_y, params, calls, req, res, chk>>

\* the search with hold_back left at None
SelectOrder == SelectCore(1..MaxSelVars, {NoneInt}, BOOLEAN)

NextSelect == SelectOrder
SpecSelect == Init /\ [][NextSelect]_vars

\* the search on one exogenous variable with a hold_back given: below,
\* at and above the largest lag of the maximal model
HoldBacks == {NoneInt} \cup 0..(MaxSelLag + 2)
SelectHeld == SelectCore({1}, HoldBacks, BOOLEAN)
NextHeld == SelectHeld
SpecHeld == Init /\ [][NextHeld]_vars

\* the nested search alone
SelectNested == SelectCore(1..MaxSelVars, {NoneInt}, {FALSE})
NextNested == SelectNested
SpecNested == Init /\ [][NextNested]_vars

\* ------------------------------------------- validation of explicit lists
ListVals == (-1)..MaxListVal
Lists == UNION {[1..k -> ListVals] : k \in 0..MaxListLen}

\* _check_order on an explicit list, and _format_order on the same list for
\* one exogenous variable
CheckOrder ==
    /\ chk.state = "none"
    /\ \E l \in Lists, causal \in BOOLEAN :
          chk' = [state |-> "done", order |-> l, causal |-> causal,
                  result |-> check_order(OSeq(l), causal),
                  formatted |-> format_order(<<ExogCol(0)>>, OSeq(l), causal)]
    /\ UNCHANGED <<mstate, model, self_x, self_y, params, calls, req, res, sel>>

\* _check_order on an integer order (a Python int or a numpy integer) and
\* _format_order on the same order for nv exogenous variables, the order
\* given as a scalar or as the value of every key of a mapping
CheckInt ==
    /\ chk.state = "none"
    /\ \E k \in ListVals, np \in BOOLEAN, causal \in BOOLEAN,
          form \in {"scalar", "map"}, nv \in 1..MaxCheckVars :
          LET val == IF np THEN ONpInt(k) ELSE OInt(k)
              exog == [v \in 1..nv |-> ExogCol(v - 1)]
              arg == IF form = "scalar" THEN val
                     ELSE OMap([v \in 1..nv |-> [key |-> v - 1, val |-> val]])
          IN  chk' = [state |-> "int", k |-> k, np |-> np, causal |-> causal,
                      form |-> form, nv |-> nv,
                      result |-> check_order(val, causal),
                      formatted |-> format_order(exog, arg, causal)]
    /\ UNCHANGED <<mstate, model, self_x, self_y, params, calls, req, res, sel>>

NextCheck == CheckOrder \/ CheckInt
SpecCheck == Init /\ [][NextCheck]_vars

\* Sequences of predict calls on one fitted autoregression
SeqArgs ==
    [endog |-> {EndogSeries(1)}, exog |-> {<<>>}, fixed |-> {<<>>},
     trend |-> {"n", "c"}, lags |-> {OInt(1), OInt(2)}, order |-> {ONone}, causal |-> {FALSE},
     hold_back |-> {NoneInt, 3}]
ConstructSeq == ConstructFrom(SeqArgs)
PredictSeq == PredictUpTo(MaxCalls)
NextSeq == ConstructSeq \/ Fit \/ PredictSeq
SpecSeq == Init /\ [][NextSeq]_vars

\* --------------------------------------- construction on wider arguments
\* mapping orders: up to MaxMapKeys distinct keys in any order, key
\* MaxBuildVars being no column of the data
MapVals == {ONone, OInt(0), OInt(1), ONpInt(1), OSeq(<<2, 1>>), OSeq(<<>>),
            OSeq(<<1, 1>>)}
MapKeySeqs ==
    {ks \in UNION {[1..k -> 0..MaxBuildVars] : k \in 0..MaxMapKeys} :
        \A i, j \in 1..Len(ks) : i # j => ks[i] # ks[j]}
MapOrders ==
    {OMap([i \in 1..Len(ks) |-> [key |-> ks[i], val |-> vs[i]]]) :
        ks \in MapKeySeqs, vs \in [1..MaxMapKeys -> MapVals]}
BuildArgs ==
    [endog |-> {EndogSeriesN(1, BuildNObs)},
     exog |-> {[v \in 1..nv |-> ExogColN(v - 1, BuildNObs)] :
                  nv \in 0..MaxBuildVars},
     fixed |-> {<<>>, <<FixedColN(BuildNObs)>>}, trend |-> {"n", "c"},
     lags |-> {ONone, OInt(1), OInt(2), OSeq(<<2>>), OSeq(<<2, 1>>)},
     order |-> {ONone, OInt(0), OInt(1), OInt(2), OSeq(<<2, 0>>)},
     causal |-> BOOLEAN, hold_back |-> {NoneInt, 0, 1, 3}]
\* the arguments tried with a mapping order
MapArgs ==
    [endog |-> {EndogSeriesN(1, BuildNObs)},
     exog |-> {[v \in 1..nv |-> ExogColN(v - 1, BuildNObs)] :
                  nv \in 1..MaxBuildVars},
     fixed |-> {<<>>, <<FixedColN(BuildNObs)>>}, trend |-> {"c"},
     lags |-> {ONone, OSeq(<<2, 1>>)}, order |-> MapOrders,
     causal |-> BOOLEAN, hold_back |-> {NoneInt, 1}]
ConstructBuild == ConstructCore(BuildArgs, TRUE)
ConstructMapped == ConstructCore(MapArgs, TRUE)
NextBuild == ConstructBuild \/ ConstructMapped
SpecBuild == Init /\ [][NextBuild]_vars

\* ---------------------------------------------------------------- claims
Called == calls > 0
Done == Called /\ res.err = "ok"
\* time index of output row i (0-based) of the last request
TimeOf(i) == req.start + i
NoNewData == ~req.exog.given /\ ~req.fixed.given
\* row of the design matrix assembled at construction for time t
ConstructedRow(m, t) ==
    StackRow(m.endog, m.exog, m.fixed, m.trend, EndogRegLags(m.lags),
             m.order, t)

\* C1: a predict call leaves the stored design matrix, response vector, lag
\* orders, hold_back and maxlag of the model as they were before the call.
C1_PredictLeavesModel ==
    [][calls' = calls + 1 =>
         (self_x' = self_x /\ self_y' = self_y /\ model' = model)]_vars

\* C2: after any earlier predict calls, a static (dynamic=False) purely
\* in-sample prediction returns at every index t >= hold_back of the range
\* the fitted value: row t - hold_back of the design matrix assembled at
\* construction times the coefficients.
C2_StaticReproducesFit ==
    (Done /\ req.dynamic = DynFalse /\ req.num_oos = 0 /\ NoNewData) =>
        \A t \in req.start..req.end :
            t >= model.hold_back =>
                /\ t - req.start + 1 <= Len(res.fcasts)
                /\ res.fcasts[t - req.start + 1]
                       = Dot(ConstructedRow(model, t), params)

\* C3: the forecasting matrix and the forecast vector have exactly
\* end + num_oos - start + 1 rows, one per index of [start, end + num_oos].
C3_OneRowPerIndex ==
    Done => /\ Len(res.x0) = req.end + req.num_oos - req.start + 1
            /\ Len(res.fcasts) = req.end + req.num_oos - req.start + 1

\* The bound as the claim states it: 0 with a fixed regressor or with lag 0
\* of some exogenous variable, else the least included lag of any kind
AllLags(m) == Range(m.lags) \cup UNION {Range(m.order[i].lags) : i \in 1..Len(m.order)}
StatedBound(m) ==
    IF Len(m.fixed) > 0 \/ (\E i \in 1..Len(m.order) : 0 \in Range(m.order[i].lags))
    THEN 0
    ELSE IF AllLags(m) = {} THEN Inf
    ELSE CHOOSE b \in AllLags(m) : \A l \in AllLags(m) : b <= l

\* C4: the one-step bound is 0 with any fixed regressor or a non-causal
\* model and otherwise the minimum over all included autoregressive and
\* exogenous lags; a request for more out-of-sample steps than the bound
\* fails, returning no forecast, when the model has exogenous lags and no
\* exog_oos is given or has fixed regressors and no fixed_oos is given.
C4_OneStepBound ==
    mstate = "fitted" =>
        /\ max_1step(model) = StatedBound(model)
        /\ (Called /\ req.num_oos > StatedBound(model)
              /\ \/ (Len(model.order) > 0 /\ ~req.exog_oos.given)
                 \/ (Len(model.fixed) > 0 /\ ~req.fixed_oos.given))
            => (res.err # "ok" /\ res.fcasts = <<>>)

\* a causal model whose least lag is 2 (AR lag 2, exogenous lag 2) asked for
\* three steps ahead without exog_oos: the bound is 2 and the call has failed
C4_Witness ==
    /\ Called /\ mstate = "fitted" /\ model.lags = <<2>>
    /\ Len(model.order) = 1 /\ model.order[1].lags = <<2>>
    /\ Len(model.fixed) = 0 /\ max_1step(model) = 2
    /\ req.num_oos = 3 /\ ~req.exog_oos.given
    /\ res.err = "ValueError" /\ res.fcasts = <<>>

\* index of the last output row of the request [start, end + num_oos]
LastRow == req.end + req.num_oos - req.start

\* C5: every returned value at a time index below hold_back is NaN (stated
\* for the rows of the requested range).
C5_NaNBeforeHoldBack ==
    Done => \A i \in 0..MinI(LastRow, Len(res.fcasts) - 1) :
                TimeOf(i) < model.hold_back => IsNaN(res.fcasts[i + 1])

\* C6: in a completed call each row i of the dynamic region (the rows from
\* dynamic_start on of the requested range) holds, for the j-th
\* autoregressive lag L, the forecast of row i - L when
\* i - L >= dynamic_start and the observed response at time start + i - L
\* otherwise, and its forecast is the row times the coefficients; with lag 1
\* only and no other regressor, f(t+1) = phi * f(t) for every dynamic step
\* after the first out-of-sample one.
C6_DynamicWalk ==
    Done =>
      LET n == Len(model.endog)
          off == DetCols(model.trend)
          last == MinI(LastRow, Len(res.fcasts) - 1)
      IN  /\ \A i \in res.ds..last :
                /\ \A j \in 1..Len(model.lags) :
                      LET L == model.lags[j]
                          e == res.x1[i + 1][off + j]
                      IN  IF i - L >= res.ds THEN e = res.fcasts[i - L + 1]
                          ELSE /\ TimeOf(i) - L \in 0..(n - 1)
                               /\ e = model.endog[TimeOf(i) - L + 1]
                /\ res.fcasts[i + 1] = Dot(res.x1[i + 1], params)
          /\ (model.lags = <<1>> /\ NCols(model) = 1) =>
                \A i \in 0..last :
                    (TimeOf(i) > n /\ i - 1 >= res.ds) =>
                        res.fcasts[i + 1] = Mul(params[1], res.fcasts[i])

\* a pure AR(1) forecast three steps ahead has walked the recursion:
\* the forecasts are phi*y, phi^2*y, phi^3*y with phi = 2
C6_Witness ==
    /\ Done /\ model.lags = <<1>> /\ NCols(model) = 1 /\ params = <<2>>
    /\ req.num_oos = 3 /\ req.start = Len(model.endog)
    /\ req.dynamic = DynFalse
    /\ res.fcasts = <<2 * model.endog[Len(model.endog)],
                      4 * model.endog[Len(model.endog)],
                      8 * model.endog[Len(model.endog)]>>

\* ------------------------------------------------ claims: order selection
Scored == sel.state # "none" /\ sel.base.err = "ok"
SelKeys == select_keys(sel.base.lags, sel.base.order)
Pow2(k) == Cardinality(SUBSET (1..k))

\* C7: in global mode every subset of the candidate columns, of every size
\* from 0 up to the full set, has its own entry in the criterion table, which
\* has 2^m entries for m candidate columns.
C7_GlobalScoresPowerSet ==
    (Scored /\ sel.glob) =>
        /\ Len(sel.ics) = Pow2(Len(SelKeys))
        /\ \A S \in SUBSET (0..(Len(SelKeys) - 1)) :
              \E i \in 1..Len(sel.ics) : Range(sel.ics[i].perm) = S

\* lags of variable v in a formatted order, <<>> when v is excluded
LagsOf(order, v) ==
    IF \E i \in 1..Len(order) : order[i].key = v
    THEN order[CHOOSE i \in 1..Len(order) : order[i].key = v].lags
    ELSE <<>>
SelVars == {sel.base.order[i].key : i \in 1..Len(sel.base.order)}
SelExog == [v \in 1..Cardinality(SelVars) |-> ExogColN(v - 1, SelNObs)]

\* C8: in global mode, rebuilding a model from the key of any scored subset
\* succeeds and yields exactly the autoregressive lags and the per-variable
\* exogenous lags of the subset, a variable with no chosen column being
\* excluded; the returned model has the lag structure of the winner.
C8_GlobalKeyDecodes ==
    (Scored /\ sel.glob) =>
        \A i \in 1..Len(sel.ics) :
            LET e == sel.ics[i]
                r == refit_model(EndogSeriesN(1, SelNObs), SelExog, e.key,
                                 sel.causal, sel.base.hold_back)
            IN  /\ r.err = "ok"
                /\ r.lags = PickLags(SelKeys, e.perm, NoneInt)
                /\ \A v \in SelVars :
                      LagsOf(r.order, v) = PickLags(SelKeys, e.perm, v)
                /\ Len(r.order) =
                      Cardinality({v \in SelVars :
                                      PickLags(SelKeys, e.perm, v) # <<>>})
                /\ (i = sel.best =>
                      /\ sel.state = "ok"
                      /\ sel.model.lags = r.lags /\ sel.model.order = r.order)

ChosenVal(i) == sel.ics[i].val[sel.index]

\* C9: the selected candidate has the minimal value of the chosen criterion
\* over all scored candidates, and among candidates of equal minimal value
\* it is the first in enumeration order.
C9_SelectsFirstMinimum ==
    (Scored /\ sel.best > 0) =>
        /\ sel.selected_order = sel.ics[sel.best].key
        /\ \A i \in 1..Len(sel.ics) : ChosenVal(sel.best) <= ChosenVal(i)
        /\ \A i \in 1..(sel.best - 1) : ChosenVal(i) > ChosenVal(sel.best)

\* a selection with a tie for the minimum: the winner is neither the first
\* entry nor the last of the entries with its value
C9_Witness ==
    /\ Scored /\ sel.best > 1
    /\ \E i \in (sel.best + 1)..Len(sel.ics) : ChosenVal(i) = ChosenVal(sel.best)

\* --------------------------------------------------- claims: validation
\* C10: an explicit lag list is accepted if and only if its entries are all
\* non-negative, pairwise distinct and, when causal, all >= 1; an accepted
\* list is used verbatim, in the caller's order.
C10_ListAcceptedIff ==
    chk.state = "done" =>
        LET l == chk.order
            valid == /\ \A i \in 1..Len(l) : l[i] >= 0
                     /\ \A i, j \in 1..Len(l) : i # j => l[i] # l[j]
                     /\ (chk.causal => \A i \in 1..Len(l) : l[i] >= 1)
        IN  /\ (chk.result = "ok") <=> valid
            /\ chk.result # "ok" => chk.formatted.err # "ok"
            /\ chk.result = "ok" =>
                  /\ chk.formatted.err = "ok"
                  /\ chk.formatted.ord = <<[key |-> 0, lags |-> l]>>

\* C11: an integer order k is rejected by validation exactly when
\* k < c (c the causal flag as 0 or 1), and an accepted k expands, for each
\* exogenous variable, to the lag list c, c+1, ..., k.
C11_IntOrderExpands ==
    chk.state = "int" =>
        LET c == B2I(chk.causal)
            expected == [v \in 1..chk.nv |->
                            [key |-> v - 1,
                             lags |-> [j \in 1..(chk.k - c + 1) |-> c + j - 1]]]
        IN  /\ (chk.result # "ok") <=> (chk.k < c)
            /\ chk.result # "ok" => chk.formatted.err # "ok"
            /\ chk.result = "ok" =>
                  /\ chk.formatted.err = "ok"
                  /\ chk.formatted.ord = expected

\* ------------------------------------------------- claims: construction
Built == mstate \in {"built", "fitted"}

\* C12: a constructed model has a design matrix and a response vector of
\* nobs - hold_back rows each, row r of both holding the values of time
\* hold_back + r (the response itself, the response L steps earlier for the
\* autoregressive lags L, the exogenous variable at its lags, the fixed
\* regressors), and never more columns than rows: a model whose trimmed
\* matrix would have more columns than rows is not constructed.
C12_TrimmedRows ==
    (Built /\ calls = 0) =>
        LET n == Len(model.endog)
            hb == model.hold_back
            off == DetCols(model.trend)
            nar == Len(model.lags)
            k == NCols(model)
        IN  /\ Len(self_x) = n - hb
            /\ Len(self_y) = n - hb
            /\ k <= n - hb
            /\ \A r \in 0..(n - hb - 1) :
                  /\ Len(self_x[r + 1]) = k
                  /\ self_y[r + 1] = model.endog[hb + r + 1]
                  /\ {self_x[r + 1][off + j] : j \in 1..nar}
                        = {model.endog[hb + r - L + 1] : L \in Range(model.lags)}
                  /\ Len(model.order) > 0 =>
                        \A j \in 1..Len(model.order[1].lags) :
                            self_x[r + 1][off + nar + j]
                              = model.exog[model.order[1].key + 1]
                                          [hb + r - model.order[1].lags[j] + 1]
                  /\ \A c \in 1..Len(model.fixed) :
                        self_x[r + 1][k - Len(model.fixed) + c]
                          = model.fixed[c][hb + r + 1]

\* a model with as many columns as rows: constant, two autoregressive lags,
\* three rows left after hold_back = 3
C12_Witness ==
    /\ Built /\ calls = 0 /\ model.hold_back = 3 /\ model.trend = "c"
    /\ model.lags = <<1, 2>> /\ NCols(model) = 3 /\ Len(self_x) = 3

\* largest element of a non-empty set of integers
SetMax(S) == CHOOSE b \in S : \A l \in S : l <= b

\* C13: maxlag is the largest included autoregressive or exogenous lag, 0
\* when there is none; with no hold_back argument hold_back is maxlag; an
\* explicit hold_back is kept and, when below maxlag, no model is
\* constructed; so hold_back >= maxlag on every constructed model.
C13_HoldBackCoversMaxlag ==
    (chk.state = "init" /\ Built) =>
        /\ model.maxlag = SetMax(AllLags(model) \cup {0})
        /\ model.hold_back >= model.maxlag
        /\ chk.hold_back = NoneInt => model.hold_back = model.maxlag
        /\ chk.hold_back # NoneInt => model.hold_back = chk.hold_back

\* a model whose largest lag is an exogenous one, hold_back left to default
C13_Witness ==
    /\ chk.state = "init" /\ Built /\ chk.hold_back = NoneInt
    /\ model.lags = <<1>> /\ Len(model.order) = 1
    /\ model.order[1].lags = <<0, 1, 2>> /\ model.hold_back = 2

\* value at time t of the regressor a parameter name stands for
NameValue(m, nm, t) ==
    IF nm.blk = "det" THEN (IF nm.var = 0 THEN 1 ELSE t + 1)
    ELSE IF nm.blk = "y" THEN m.endog[t - nm.lag + 1]
    ELSE IF nm.blk = "x" THEN m.exog[nm.var + 1][t - nm.lag + 1]
    ELSE m.fixed[nm.var + 1][t + 1]

\* C14: the columns are the deterministic block, the endogenous lags, one
\* exogenous block per included variable in the order of the columns of
\* the exogenous data, and the fixed block; the parameter names have the
\* length and order of the columns, each column holding the regressor its
\* name stands for.  AR lags 1..2, one variable of order 1, non-causal,
\* constant trend: [const, y.L1, y.L2, x.L0, x.L1], hold_back 2.
C14_ColumnOrder ==
    (chk.state = "init" /\ Built) =>
        LET names == param_names(model.trend, model.lags, model.order,
                                 model.fixed)
            hb == model.hold_back
            expected ==
                [i \in 1..DetCols(model.trend) |->
                    [blk |-> "det", var |-> i - 1, lag |-> 0]]
                \o [j \in 1..Len(model.lags) |->
                       [blk |-> "y", var |-> 0, lag |-> model.lags[j]]]
                \o Flatten([v \in 1..Len(model.exog) |->
                       [j \in 1..Len(LagsOf(model.order, v - 1)) |->
                           [blk |-> "x", var |-> v - 1,
                            lag |-> LagsOf(model.order, v - 1)[j]]]])
                \o [c \in 1..Len(model.fixed) |->
                       [blk |-> "z", var |-> c - 1, lag |-> 0]]
        IN  /\ names = expected
            /\ \A r \in 1..Len(self_x) :
                  /\ Len(self_x[r]) = Len(names)
                  /\ \A j \in 1..Len(names) :
                        self_x[r][j] = NameValue(model, names[j], hb + r - 1)
            /\ (/\ chk.lags = OInt(2) /\ chk.order = OInt(1) /\ ~chk.causal
                 /\ chk.trend = "c" /\ Len(chk.exog) = 1
                 /\ Len(chk.fixed) = 0 /\ chk.hold_back = NoneInt)
                => /\ names = <<[blk |-> "det", var |-> 0, lag |-> 0],
                                [blk |-> "y", var |-> 0, lag |-> 1],
                                [blk |-> "y", var |-> 0, lag |-> 2],
                                [blk |-> "x", var |-> 0, lag |-> 0],
                                [blk |-> "x", var |-> 0, lag |-> 1]>>
                   /\ hb = 2

\* the rules for one value of an order: None; an integer at least the
\* causal flag; a list of distinct non-negative entries, positive if causal
ValueValid(v, causal) ==
    IF v.tag = "none" THEN TRUE
    ELSE IF v.tag \in {"int", "npint"} THEN v.n >= B2I(causal)
    ELSE /\ \A i \in 1..Len(v.s) : v.s[i] >= B2I(causal)
         /\ \A i, j \in 1..Len(v.s) : i # j => v.s[i] # v.s[j]

\* C15: with a mapping order, a key that is no variable of the data makes
\* construction fail with no model, whatever else is missing; otherwise
\* the variables absent from the mapping and those mapped to None are
\* excluded, a warning is raised exactly when a variable is absent, every
\* value is validated by the integer and list rules, and the order is
\* formatted so that construction goes on.
C15_MappingOrder ==
    (chk.state = "init" /\ chk.order.tag = "map") =>
        LET m == chk.order.m
            keys == {m[i].key : i \in 1..Len(m)}
            data == 0..(Len(chk.exog) - 1)
            included == {m[i].key : i \in {q \in 1..Len(m) :
                                              m[q].val.tag # "none"}}
            fo == chk.formatted
        IN  /\ keys \ data # {} =>
                  /\ mstate = "failed" /\ chk.err = "ValueError"
                  /\ fo.err = "ValueError" /\ ~fo.warn
            /\ keys \ data = {} =>
                  /\ (\E i \in 1..Len(m) : ~ValueValid(m[i].val, chk.causal))
                        => (mstate = "failed" /\ fo.err # "ok")
                  /\ (\A i \in 1..Len(m) : ValueValid(m[i].val, chk.causal))
                        => /\ fo.err = "ok"
                           /\ fo.warn <=> (data \ keys # {})
                           /\ {fo.ord[i].key : i \in 1..Len(fo.ord)} = included
                           /\ Built => model.order = fo.ord

\* product of the entries of a sequence of integers
RECURSIVE SeqProd(_)
SeqProd(q) == IF Len(q) = 0 THEN 1 ELSE Head(q) * SeqProd(Tail(q))

\* sizes of the candidate blocks: the response first, then each variable
SelSizes ==
    <<Len(sel.base.lags)>>
    \o [i \in 1..Len(sel.base.order) |-> Len(sel.base.order[i].lags)]
RECURSIVE SeqSum(_)
SeqSum(q) == IF Len(q) = 0 THEN 0 ELSE Head(q) + SeqSum(Tail(q))
\* the columns (0-based, over the stacked blocks) of the first q[b] columns
\* of every block b
PrefixColumns(sizes, q) ==
    UNION {{SeqSum(SubSeq(sizes, 1, b - 1)) + c : c \in 0..(q[b] - 1)} :
              b \in 1..Len(sizes)}

\* C16: in nested mode the scored candidates are exactly the choices of a
\* prefix length per block, 0..maxlag columns of the response block and
\* 0..k_i columns of each exogenous block; no other subset is scored,
\* the candidates have pairwise distinct keys and the table has
\* (maxlag + 1) * prod (k_i + 1) entries.
C16_NestedProduct ==
    (Scored /\ ~sel.glob) =>
        LET sizes == SelSizes
            choices == {q \in [1..Len(sizes) -> 0..SeqMax(sizes)] :
                           \A b \in 1..Len(sizes) : q[b] <= sizes[b]}
        IN  /\ Len(sel.ics) = SeqProd([b \in 1..Len(sizes) |-> sizes[b] + 1])
            /\ {Range(sel.ics[i].perm) : i \in 1..Len(sel.ics)}
                  = {PrefixColumns(sizes, q) : q \in choices}
            /\ \A i, j \in 1..Len(sel.ics) :
                  i # j => sel.ics[i].key # sel.ics[j].key

\* a nested search over two response lags and two non-causal variables of
\* order 1: 3 * 3 * 3 candidates
C16_Witness ==
    /\ Scored /\ ~sel.glob /\ ~sel.causal
    /\ SelSizes = <<2, 2, 2>> /\ Len(sel.ics) = 27

\* C17: the returned results hold, for each of AIC, BIC and HQIC, a table
\* with one entry per scored candidate, pairing the candidate's lag
\* structure with its value of the criterion, also when candidates tie.
C17_TablesHoldAllCandidates ==
    sel.state = "ok" =>
        \A c \in 1..3 :
            /\ Len(sel.tables[c]) = Len(sel.ics)
            /\ \A i \in 1..Len(sel.ics) :
                  \E k \in 1..Len(sel.tables[c]) :
                      /\ sel.tables[c][k].key = sel.ics[i].val[c]
                      /\ sel.tables[c][k].val = to_dict(sel.ics[i].key)

\* ------------------------------------------- claims: dynamic forecasting
\* the autoregressive entry j of output row i was taken from the forecast of
\* row i - L of the same call
SubstitutedForecast(i, j) ==
    LET L == model.lags[j]
    IN  /\ i >= res.ds /\ i - L >= res.ds
        /\ res.x1[i + 1][DetCols(model.trend) + j] = res.fcasts[i - L + 1]

\* C18 as stated: with dynamic=False no row of the output range
\* [start, end + num_oos], in-sample or out-of-sample, has a previously
\* computed forecast substituted into an autoregressive entry.
C18_StaticEverywhere ==
    (Done /\ req.dynamic = DynFalse) =>
        \A i \in 0..MinI(LastRow, Len(res.fcasts) - 1) :
            \A j \in 1..Len(model.lags) : ~SubstitutedForecast(i, j)

\* C18 amended: with dynamic=False dynamic_start is end + 1 - start, so the
\* call substitutes nothing into a row with time index <= end: such a row
\* is the one _forecasting_x returned and its prediction is that row times
\* the coefficients.  The out-of-sample rows are still forecast
\* recursively: their autoregressive entry for lag L holds the forecast of
\* the row L steps earlier whenever that row is out-of-sample too.
C18_StaticInSample ==
    (Done /\ req.dynamic = DynFalse) =>
        LET last == MinI(LastRow, Len(res.fcasts) - 1)
            inSample == req.end + 1 - req.start
        IN  /\ res.ds = inSample
            /\ \A i \in 0..MinI(inSample - 1, last) :
                   /\ res.x1[i + 1] = res.x0[i + 1]
                   /\ res.fcasts[i + 1] = Dot(res.x0[i + 1], params)
                   /\ \A j \in 1..Len(model.lags) : ~SubstitutedForecast(i, j)
            /\ \A i \in inSample..last :
                   \A j \in 1..Len(model.lags) :
                       i - model.lags[j] >= inSample => SubstitutedForecast(i, j)

\* a static call over in-sample rows past hold_back and two steps out of
\* sample: the second out-of-sample row holds the first one's forecast
C18_Witness ==
    /\ Done /\ req.dynamic = DynFalse /\ req.num_oos = 2
    /\ req.start >= model.hold_back /\ req.start < req.end
    /\ 1 \in Range(model.lags)
    /\ \E j \in 1..Len(model.lags) :
           model.lags[j] = 1 /\ SubstitutedForecast(LastRow, j)
    /\ \A i \in 0..(req.end - req.start) : res.x1[i + 1] = res.x0[i + 1]

\* C19: with dynamic forecasting requested at offset d >= 0 from start the
\* effective dynamic_start is d when start >= hold_back and
\* max(d, hold_back - start) otherwise; no row of the dynamic region has a
\* time index below hold_back, and every row before dynamic_start is
\* computed statically: it is the row _forecasting_x returned, nothing is
\* substituted into it and its prediction is that row times the
\* coefficients.
C19_DynamicStartClamp ==
    (Done /\ req.dynamic # DynFalse) =>
        LET d == req.dynamic
            hb == model.hold_back
            last == Len(res.fcasts) - 1
        IN  /\ d >= 0
            /\ res.ds = IF req.start >= hb THEN d ELSE MaxI(d, hb - req.start)
            /\ \A i \in res.ds..last : TimeOf(i) >= hb
            /\ \A i \in 0..MinI(res.ds - 1, last) :
                   /\ res.x1[i + 1] = res.x0[i + 1]
                   /\ res.fcasts[i + 1] = Dot(res.x0[i + 1], params)
                   /\ \A j \in 1..Len(model.lags) : ~SubstitutedForecast(i, j)

\* a dynamic request at offset 0 starting below hold_back: the dynamic
\* region is pushed to hold_back, the rows before it are static and a row
\* of the dynamic region holds an earlier forecast
C19_Witness ==
    /\ Done /\ req.dynamic = 0 /\ req.start < model.hold_back
    /\ res.ds = model.hold_back - req.start
    /\ res.ds + 1 <= LastRow /\ LastRow < Len(res.fcasts)
    /\ \E j \in 1..Len(model.lags) : SubstitutedForecast(res.ds + 1, j)
    /\ res.x1[res.ds] = res.x0[res.ds]

\* ------------------------------------------ claims: the in-sample shortcut
\* the last call took the shortcut of _forecasting_x
TookShortcut ==
    Done /\ NoNewData /\ req.num_oos = 0 /\ req.end + 1 < Len(model.endog)
\* what the rebuild path returns for the start of the last request
Rebuilt == rebuild_x(model, req.start, 0, NoArr, NoArr, NoArr, NoArr)

\* C20: for a fully in-sample request with no replacement and no
\* out-of-sample data the rows the shortcut returns equal, index by index
\* over the range [start, end], the rows the rebuild path produces: NaN rows
\* before hold_back, the same regressor values from hold_back on.
C20_ShortcutEqualsRebuild ==
    TookShortcut =>
        /\ Rebuilt.err = "ok"
        /\ \A i \in 0..(req.end - req.start) :
               /\ i < Len(res.x0) /\ i < Len(Rebuilt.x)
               /\ res.x0[i + 1] = Rebuilt.x[i + 1]

\* --------------------------------------- claims: out-of-sample exog data
\* the last call asked a model with exogenous lags for more out-of-sample
\* steps than its one-step bound and brought the rows the claim asks for
EnoughOosRows ==
    /\ Called /\ Len(model.order) > 0 /\ req.num_oos > max_1step(model)
    /\ req.exog_oos.given
    /\ ArrRows(req.exog_oos) >= req.num_oos - max_1step(model)
    /\ (Len(model.fixed) > 0 =>
           req.fixed_oos.given /\ ArrRows(req.fixed_oos) >= req.num_oos)

\* C21: an exog_oos of at least num_oos - max_1step rows (with a fixed_oos
\* of at least num_oos rows when there are fixed regressors) is enough:
\* the call raises nothing and returns a forecast for each of the num_oos
\* out-of-sample indices.
C21_OosRowsSuffice ==
    EnoughOosRows =>
        /\ res.err = "ok"
        /\ Len(res.fcasts) >= LastRow + 1

\* ------------------------------------- claims: the autoregressive block
\* C22: position j of the autoregressive block stands for the j-th listed
\* lag in the design matrix used for fitting, in the parameter names, in the
\* rebuilt forecasting matrix and in the entries the dynamic loop writes,
\* whatever the order of the lag list.
C22_LagPositionsAgree ==
    Built =>
        LET n == Len(model.endog)
            hb == model.hold_back
            off == DetCols(model.trend)
            names == param_names(model.trend, model.lags, model.order,
                                 model.fixed)
            rb == rebuild_x(model, hb, 0, NoArr, NoArr, NoArr, NoArr)
        IN  \A j \in 1..Len(model.lags) :
              LET L == model.lags[j]
              IN  /\ names[off + j] = [blk |-> "y", var |-> 0, lag |-> L]
                  /\ calls = 0 =>
                        \A r \in 1..Len(self_x) :
                            self_x[r][off + j] = model.endog[hb + r - L]
                  /\ rb.err = "ok" =>
                        \A r \in 1..Len(rb.x) :
                            rb.x[r][off + j] = model.endog[hb + r - L]
                  /\ Done =>
                        \A i \in res.ds..MinI(LastRow, Len(res.fcasts) - 1) :
                            res.x1[i + 1][off + j] =
                                IF i - L >= res.ds THEN res.fcasts[i - L + 1]
                                ELSE model.endog[TimeOf(i) - L + 1]

ReachedLoop == Called /\ res.err \in {"ok", "IndexError"}

\* C24: every read self.endog[start + i - L] of the dynamic loop has
\* 0 <= start + i - L < nobs: no read raises IndexError past the sample
\* and none wraps around through a negative index.
C24_HistoryReadsInSample ==
    ReachedLoop =>
        LET n == Len(model.endog)
            ds == dynamic_start(model, req.start, req.end, req.dynamic)
        IN  /\ res.err # "IndexError"
            /\ \A i \in ds..(Len(res.fcasts) - 1) :
                   \A j \in 1..Len(model.lags) :
                       i - model.lags[j] < ds =>
                           TimeOf(i) - model.lags[j] \in 0..(n - 1)

\* ------------------------------- claims: forecasts within the one-step bound
\* the last call asked a causal model without fixed regressors for at most
\* as many out-of-sample steps as its smallest lag, bringing no exog_oos
WithinOneStep ==
    /\ Called /\ model.causal /\ Len(model.fixed) = 0
    /\ req.num_oos >= 1 /\ req.num_oos <= StatedBound(model)
    /\ ~req.exog_oos.given

\* C25: in that case the call succeeds and, in every out-of-sample row, each
\* exogenous-lag entry holds an in-sample value of the exogenous data (never
\* a placeholder row), each autoregressive entry holds the observed response
\* or an earlier forecast, and the forecast is defined.
C25_PlaceholderNeverRead ==
    WithinOneStep =>
        LET n == Len(model.endog)
            names == param_names(model.trend, model.lags, model.order,
                                 model.fixed)
            data == IF req.exog.given THEN req.exog.cols ELSE model.exog
        IN  /\ res.err = "ok"
            /\ LastRow < Len(res.fcasts)
            /\ \A i \in 0..LastRow :
                  TimeOf(i) >= n =>
                    /\ ~IsNaN(res.fcasts[i + 1])
                    /\ Len(res.x1[i + 1]) = Len(names)
                    /\ \A c \in 1..Len(names) :
                          LET t == TimeOf(i) - names[c].lag
                              e == res.x1[i + 1][c]
                          IN  /\ ~IsNaN(e)
                              /\ names[c].blk = "x" =>
                                    /\ t \in 0..(n - 1)
                                    /\ e = data[names[c].var + 1][t + 1]
                              /\ names[c].blk = "y" =>
                                    IF i - names[c].lag >= res.ds
                                    THEN e = res.fcasts[i - names[c].lag + 1]
                                    ELSE /\ t \in 0..(n - 1)
                                         /\ e = model.endog[t + 1]

\* two steps ahead from a causal model with response lag 2 and exogenous
\* lag 2, no exog_oos: both forecasts are defined
C25_Witness ==
    /\ WithinOneStep /\ Done /\ req.num_oos = 2
    /\ model.lags = <<2>> /\ Len(model.order) = 1
    /\ model.order[1].lags = <<2>>
    /\ req.start <= req.end
    /\ ~IsNaN(res.fcasts[LastRow + 1]) /\ ~IsNaN(res.fcasts[LastRow])

\* ------------------------------------- claims: hold_back of the selection
\* C26: every candidate is scored on the rows after the hold_back of the
\* maximal model (the given hold_back, or the maximal model's maxlag), and a
\* model rebuilt from any candidate's key is given that hold_back: it never
\* fails the hold_back >= maxlag check (a failing rebuild fails in the
\* validation of the order, before that check) and its estimation sample
\* has as many rows as were scored; so has the returned model.
C26_SameHoldBack ==
    Scored =>
        LET hb == sel.base.hold_back
            endog == EndogSeriesN(1, SelNObs)
        IN  /\ hb = IF sel.hold_back = NoneInt THEN sel.base.maxlag
                    ELSE sel.hold_back
            /\ sel.rows = SelNObs - hb
            /\ \A i \in 1..Len(sel.ics) :
                  LET key == sel.ics[i].key
                  IN  \A r \in {refit_model(endog, SelExog, key,
                                             sel.causal, hb)} :
                      /\ IF r.err = "ok"
                         THEN /\ r.hold_back = hb /\ r.maxlag <= hb
                              /\ Len(r.y) = sel.rows /\ Len(r.x) = sel.rows
                         ELSE format_order(SelExog, OMap(key.x),
                                           sel.causal).err # "ok"
                      /\ (i = sel.best /\ r.err = "ok") =>
                            /\ sel.state = "ok"
                            /\ sel.model.hold_back = hb
                            /\ sel.model.nobs = sel.rows

\* a search with hold_back 4 over two response lags selected a model with
\* no response lag: it is still estimated on the rows from 4 on
C26_Witness ==
    /\ Scored /\ sel.state = "ok" /\ sel.hold_back = 4
    /\ sel.base.maxlag = 2 /\ sel.model.maxlag < 2
    /\ sel.model.hold_back = 4 /\ sel.model.nobs = SelNObs - 4
    /\ sel.rows = SelNObs - 4

====
